---- MODULE Spec2Model ----
(***************************************************************************)
(* E.R.I.K. local chatbot (src/app.py): the retrieval-augmented prompt     *)
(* pipeline and the chat transcript of one Streamlit session.              *)
(*                                                                         *)
(* Text is modelled as follows.  A piece of text that the program only     *)
(* copies is a string; a text that the program builds by formatting is a   *)
(* sequence of such strings (its literal parts and its fields, in order),  *)
(* so the empty Python string is <<>> or "".  User texts carry their code  *)
(* points so that strip() and the Bengali-block regex are computed.        *)
(***************************************************************************)
EXTENDS Integers, Sequences, FiniteSets, TLC

VARIABLES
    history,             \* st.session_state.history
    cache,               \* st.cache_resource: identities holding a handle
    attempted,           \* identities whose constructor body has run
    pc,                  \* position of the script run
    button,              \* which button is True in the current run
    run,                 \* how the latest script run ended
    user_text,
    model_choice,
    use_web,
    enable_bn_translate,
    user_is_bn,
    bn_en_pipe,
    en_bn_pipe,
    hits,                \* what ddg_search returned in this send
    pages,               \* what fetch_page_text returned per hit
    searchCalls,
    fetchCalls,
    retrieval,
    services,            \* what the translation pipelines did, call by call
    question,            \* first argument of build_prompt
    prompt,
    model_path,
    raw_answer,
    final_answer,
    steps                \* the steps this send has performed, in order

vars == <<history, cache, attempted, pc, button, run, user_text, model_choice,
          use_web, enable_bn_translate, user_is_bn, bn_en_pipe, en_bn_pipe,
          hits, pages, searchCalls, fetchCalls, retrieval, services, question,
          prompt, model_path, raw_answer, final_answer, steps>>

(***************************************************************************)
(* Bounds                                                                  *)
(***************************************************************************)
MaxTurns == 4
MaxHits == 2

(***************************************************************************)
(* Texts                                                                   *)
(***************************************************************************)
BengaliFirst == 2432
BengaliLast == 2559
PageCap == 8000
ExcerptCap == 1200

Min(a, b) == IF a <= b THEN a ELSE b

\* code points: 9 tab, 10 newline, 32 space, 160 no-break space,
\* 12288 ideographic space, 104 h, 105 i, 2453/2495 Bengali
CodePoints(t) ==
    CASE t = "" -> <<>>
      [] t = "  " -> <<32, 32>>
      [] t = "nbsp" -> <<160, 12288>>
      [] t = " hi " -> <<32, 104, 105, 32>>
      [] t = "hi" -> <<104, 105>>
      [] t = "bn" -> <<2453, 2495>>
      [] t = " ans " -> <<32, 97, 110, 115, 10>>
      [] t = "ans" -> <<97, 110, 115>>
      [] OTHER -> <<1>>

StripTexts == {"", "  ", "nbsp", " hi ", "hi", "bn", " ans ", "ans"}

\* the characters str.strip() removes (those with str.isspace())
Whitespace ==
    (9..13) \cup (28..32) \cup {133, 160, 5760} \cup (8192..8202)
    \cup {8232, 8233, 8239, 8287, 12288}

RECURSIVE LStrip(_)
LStrip(cp) ==
    IF cp # <<>> /\ Head(cp) \in Whitespace THEN LStrip(Tail(cp)) ELSE cp

RECURSIVE RStrip(_)
RStrip(cp) ==
    IF cp # <<>> /\ cp[Len(cp)] \in Whitespace
    THEN RStrip(SubSeq(cp, 1, Len(cp) - 1))
    ELSE cp

\* str.strip()
Strip(t) == CHOOSE s \in StripTexts : CodePoints(s) = LStrip(RStrip(CodePoints(t)))

\* re.search over the Bengali block U+0980 to U+09FF (line 247)
HasBengali(t) ==
    \E i \in 1..Len(CodePoints(t)) :
        CodePoints(t)[i] >= BengaliFirst /\ CodePoints(t)[i] <= BengaliLast

\* looks_bangla: det is what langdetect does with the text
\* ("absent": package missing, "raise": detect raises, else the language
\* code it returns)
looks_bangla(t, det) ==
    IF det \notin {"absent", "raise"} THEN det = "bn" ELSE HasBengali(t)

(***************************************************************************)
(* Web search and retrieval                                                *)
(***************************************************************************)
R1 == [title |-> "t1", href |-> "u1", snippet |-> "s1"]
R2 == [title |-> "", href |-> "u2", snippet |-> ""]
R3 == [title |-> "t3", href |-> "", snippet |-> "s3"]
Results == {R1, R2, R3}

RECURSIVE SeqsUpTo(_, _)
SeqsUpTo(S, n) ==
    IF n = 0 THEN {<<>>}
    ELSE LET shorter == SeqsUpTo(S, n - 1)
         IN  shorter \cup {Append(s, x) : s \in shorter, x \in S}

\* ddg_search: avail is whether DDGS was imported, provided is what the
\* provider would yield, yielded is how many items come out before it raises
\* (Len(provided) or more when it does not raise).  max_results is passed
\* on to the provider, which decides the length of what it yields.
ddg_search(avail, provided, yielded) ==
    IF ~avail THEN <<>>
    ELSE SubSeq(provided, 1, Min(yielded, Len(provided)))

TextLen(t) ==
    CASE t = "" -> 0
      [] t = "short" -> 300
      [] t = "long" -> 5000
      [] t = "long[:1200]" -> 1200
      [] t = "huge" -> 9000
      [] t = "huge[:8000]" -> 8000
      [] t = "huge[:1200]" -> 1200

\* text[:n]
Slice(t, n) ==
    IF TextLen(t) <= n THEN t
    ELSE CASE t = "long" /\ n = ExcerptCap -> "long[:1200]"
           [] t \in {"huge", "huge[:8000]"} /\ n = ExcerptCap -> "huge[:1200]"
           [] t = "huge" /\ n = PageCap -> "huge[:8000]"

\* fetch_page_text: resp is what requests.get does for the URL; resp.text is
\* the visible text of the page after tag removal and whitespace collapse.
fetch_page_text(resp) ==
    IF resp.kind = "exception" THEN ""
    ELSE IF resp.status # 200 THEN ""
    ELSE Slice(resp.text, PageCap)

Responses ==
    {[kind |-> "exception", status |-> 0, text |-> ""],
     [kind |-> "response", status |-> 404, text |-> "short"],
     [kind |-> "response", status |-> 200, text |-> ""],
     [kind |-> "response", status |-> 200, text |-> "short"],
     [kind |-> "response", status |-> 200, text |-> "long"],
     [kind |-> "response", status |-> 200, text |-> "huge"]}

\* the chunk of a result whose page was fetched (lines 171-175)
PageChunk(h, page_text) ==
    <<"Title: ", IF h.title # "" THEN h.title ELSE h.href,
      "\nURL: ", h.href,
      "\nSnippet: ", h.snippet,
      "\nPage excerpt: ", Slice(page_text, ExcerptCap)>>

\* the chunk of the fallback loop (line 179)
SnippetChunk(h) ==
    <<"Title: ", h.title, "\nURL: ", h.href, "\nSnippet: ", h.snippet>>

\* a first loop that stops at the first failed fetch (break for continue)
RECURSIVE FetchedChunks_Break(_, _, _)
FetchedChunks_Break(hs, pg, i) ==
    IF i > Len(hs) THEN <<>>
    ELSE IF hs[i].href = "" THEN FetchedChunks_Break(hs, pg, i + 1)
    ELSE IF pg[i] = "" THEN <<>>
    ELSE <<PageChunk(hs[i], pg[i])>> \o FetchedChunks_Break(hs, pg, i + 1)

\* the first loop (lines 164-175): page[i] is fetch_page_text of hit i,
\* consulted only when the hit has a URL
RECURSIVE FetchedChunks(_, _, _)
FetchedChunks(hs, pg, i) ==
    IF i > Len(hs) THEN <<>>
    ELSE IF hs[i].href = "" THEN FetchedChunks(hs, pg, i + 1)
    ELSE IF pg[i] = "" THEN FetchedChunks(hs, pg, i + 1)
    ELSE <<PageChunk(hs[i], pg[i])>> \o FetchedChunks(hs, pg, i + 1)

\* a fallback loop that skips results without a URL, as the first loop does
RECURSIVE SnippetChunks_SkipNoUrl(_, _)
SnippetChunks_SkipNoUrl(hs, i) ==
    IF i > Len(hs) THEN <<>>
    ELSE IF hs[i].href = "" THEN SnippetChunks_SkipNoUrl(hs, i + 1)
    ELSE <<SnippetChunk(hs[i])>> \o SnippetChunks_SkipNoUrl(hs, i + 1)

\* the fallback loop (lines 178-179)
RECURSIVE SnippetChunks(_, _)
SnippetChunks(hs, i) ==
    IF i > Len(hs) THEN <<>>
    ELSE <<SnippetChunk(hs[i])>> \o SnippetChunks(hs, i + 1)

\* "\n\n".join(chunks)
RECURSIVE Join(_)
Join(chunks) ==
    IF chunks = <<>> THEN <<>>
    ELSE IF Len(chunks) = 1 THEN chunks[1]
    ELSE chunks[1] \o <<"\n\n">> \o Join(Tail(chunks))

\* build_retrieval_context without the fallback of lines 176-179
build_retrieval_context_NoFallback(hs, pg) == Join(FetchedChunks(hs, pg, 1))

build_retrieval_context(hs, pg) ==
    LET chunks == FetchedChunks(hs, pg, 1)
    IN  IF chunks = <<>> /\ hs # <<>>
        THEN Join(SnippetChunks(hs, 1))
        ELSE Join(chunks)

\* number of fetch_page_text calls of the first loop
FetchCount(hs) == Cardinality({i \in 1..Len(hs) : hs[i].href # ""})

(***************************************************************************)
(* Prompt builder                                                          *)
(***************************************************************************)
build_prompt(user_query, retrieved_text) ==
    <<"You are E.R.I.K., a helpful, concise assistant. Answer accurately. If you used web results, cite them inline as [Source: URL]. If question is in Bangla, answer in Bangla; otherwise answer in the user's language. For math or steps, be clear and structured.",
      "\n\n">>
    \o (IF retrieved_text # <<>>
        THEN <<"Relevant web information (may be partial; verify consistency):\n">>
             \o retrieved_text
             \o <<"\n", "When you use any line from above, add [Source: URL] after the sentence.\n">>
        ELSE <<"No external web info was fetched for this question.\n">>)
    \o <<"\nUser question:\n", user_query, "\n\nAssistant answer:">>

(***************************************************************************)
(* Lazy model loaders under st.cache_resource                              *)
(***************************************************************************)
DefaultPath == "ggml-gpt4all-j-v1.3-groovy.bin"
Paths == {DefaultPath, "other.bin"}

OllamaId == <<"ollama", "mistral">>
Gpt4allId(path) == <<"gpt4all", path>>
FlanId == <<"flan", "">>
MarianId == <<"marian", "">>
Identities == {OllamaId, FlanId, MarianId} \cup {Gpt4allId(p) : p \in Paths}

ModelChoices ==
    {"Ollama (Mistral/Llama)", "GPT4All (offline)",
     "Transformers: FLAN-T5 (CPU fallback)"}

\* the identity the send handler loads for the selected backend (lines 305-317)
BackendId(choice, path) ==
    IF choice = "Ollama (Mistral/Llama)" THEN OllamaId
    ELSE IF choice = "GPT4All (offline)" THEN Gpt4allId(path)
    ELSE FlanId

\* what running a constructor body does: "ok", "no_package" (the support
\* package was not imported) or "lib_error" (the library call raises)
CtorOutcomes(id) ==
    IF id = OllamaId THEN {"ok", "no_package"}
    ELSE {"ok", "no_package", "lib_error"}

\* the grave accent U+0060, which a string of this module cannot hold
Backtick == "\\x60"

\* the exception text of a failed constructor, as the sequence of its parts
CtorError(id, outcome) ==
    IF outcome = "lib_error" THEN <<"model could not be loaded">>
    ELSE IF id = OllamaId
    THEN <<"ollama python package not installed. ",
           Backtick,
           "pip install ollama",
           Backtick,
           " and install the Ollama app.">>
    ELSE IF id[1] = "gpt4all"
    THEN <<"gpt4all package not installed. ",
           Backtick,
           "pip install gpt4all",
           Backtick,
           " and download a model.">>
    ELSE <<"transformers not installed. ",
           Backtick,
           "pip install transformers torch",
           Backtick>>

\* a loader without its cache decorator
CacheHit_Never(id) == FALSE

\* st.cache_resource looks the call up by function and arguments
CacheHit(id) == id \in cache

\* a call of a cached loader: a hit returns the stored handle; a miss runs
\* the body, and stores the handle only when the body returns
CachedLoad(id, outcome) ==
    IF CacheHit(id)
    THEN [ok |-> TRUE, ran |-> FALSE, err |-> <<>>,
          cache |-> cache, attempted |-> attempted]
    ELSE [ok |-> outcome = "ok", ran |-> TRUE,
          err |-> IF outcome = "ok" THEN <<>> ELSE CtorError(id, outcome),
          cache |-> IF outcome = "ok" THEN cache \cup {id} ELSE cache,
          attempted |-> attempted \cup {id}]

(***************************************************************************)
(* Generation and translation                                              *)
(***************************************************************************)
\* what the backend does with the prompt: raises, or returns this text
GenOutputs == {" ans "}
GenOutcomes == {[ok |-> TRUE, out |-> o] : o \in GenOutputs}
                 \cup {[ok |-> FALSE, out |-> ""]}

\* generate_with_*: the backend's text, stripped.  pkg is whether the
\* backend's package was imported in this script run (lines 32-34); only
\* generate_with_ollama tests it (lines 206-207), before calling the backend
generate(choice, pkg, outcome) ==
    IF choice = "Ollama (Mistral/Llama)" /\ ~pkg
    THEN [ok |-> FALSE, text |-> "", err |-> <<"ollama not available.">>]
    ELSE IF outcome.ok
    THEN [ok |-> TRUE, text |-> Strip(outcome.out), err |-> <<>>]
    ELSE [ok |-> FALSE, text |-> "", err |-> <<"generation error">>]

\* the MarianMT pipelines
Marian(direction, text) ==
    IF direction = "bn2en"
    THEN CASE text = "bn" -> "bn>en"
           [] text = " hi " -> " hi >en"
           [] OTHER -> "?>en"
    ELSE CASE text = "ans" -> "ans>bn"
           [] OTHER -> "?>bn"

\* svc is what the translation pipeline does on this call
TranslationServices == {"marian", "identity", "raise"}

translate_bn_en_en_bn(text, direction, bn2en, en2bn, svc) ==
    LET pipe == IF direction = "bn2en" THEN bn2en ELSE en2bn
    IN  IF pipe = "None"
        THEN [ok |-> FALSE, text |-> "",
              err |-> <<"'NoneType' object is not callable">>]
        ELSE IF svc = "raise"
        THEN [ok |-> FALSE, text |-> "", err |-> <<"translation error">>]
        ELSE [ok |-> TRUE, err |-> <<>>,
              text |-> IF svc = "identity" THEN text ELSE Marian(direction, text)]

\* line 301: is the question translated before the prompt is built
ForwardGate == enable_bn_translate /\ user_is_bn /\ bn_en_pipe # "None"

\* line 321: is the answer translated back
BackGate == enable_bn_translate /\ user_is_bn /\ en_bn_pipe # "None"

\* the message of line 327 without the exception text
FailureMessage_NoDetail(e) ==
    <<"Sorry, the local model backend failed: ",
      "\n\nTry another backend in the sidebar, or install the missing package/model.">>

\* line 327: e is the exception text, as the sequence of its parts
FailureMessage(e) ==
    <<"Sorry, the local model backend failed: ">> \o e \o
    <<"\n\nTry another backend in the sidebar, or install the missing package/model.">>

(***************************************************************************)
(* Transcript                                                              *)
(***************************************************************************)
Turn(role, content) == [role |-> role, content |-> content]

\* an append that drops a turn the transcript already holds
AppendTurn_Dedup(h, t) ==
    IF \E i \in 1..Len(h) : h[i] = t THEN h ELSE Append(h, t)

\* st.session_state.history.append(...)
AppendTurn(h, t) == Append(h, t)

\* st.session_state.history = []
ClearedHistory(h) == <<>>

(***************************************************************************)
(* The script run: session state and the send and clear handlers           *)
(***************************************************************************)
UserTexts == {"", "  ", "nbsp", " hi ", "bn"}
Detections == {"absent", "raise", "bn", "en", "hi"}

\* what the search provider and the pages do during a send of the session
SessionProvided == {<<>>, <<R1>>}
SessionResponses ==
    {[kind |-> "exception", status |-> 0, text |-> ""],
     [kind |-> "response", status |-> 200, text |-> "short"]}

\* the local names of one script run, before the handler assigns them
NoLocals ==
    /\ user_text' = ""
    /\ model_choice' = "Ollama (Mistral/Llama)"
    /\ use_web' = TRUE
    /\ enable_bn_translate' = FALSE
    /\ user_is_bn' = FALSE
    /\ bn_en_pipe' = "None"
    /\ en_bn_pipe' = "None"
    /\ hits' = <<>>
    /\ pages' = <<>>
    /\ searchCalls' = 0
    /\ fetchCalls' = 0
    /\ retrieval' = <<>>
    /\ services' = <<>>
    /\ question' = ""
    /\ prompt' = <<>>
    /\ model_path' = ""
    /\ raw_answer' = ""
    /\ final_answer' = <<>>
    /\ steps' = <<>>

Init ==
    /\ history = <<>>
    /\ cache = {}
    /\ attempted = {}
    /\ pc = "idle"
    /\ button = "none"
    /\ run = "none"
    /\ user_text = ""
    /\ model_choice = "Ollama (Mistral/Llama)"
    /\ use_web = TRUE
    /\ enable_bn_translate = FALSE
    /\ user_is_bn = FALSE
    /\ bn_en_pipe = "None"
    /\ en_bn_pipe = "None"
    /\ hits = <<>>
    /\ pages = <<>>
    /\ searchCalls = 0
    /\ fetchCalls = 0
    /\ retrieval = <<>>
    /\ services = <<>>
    /\ question = ""
    /\ prompt = <<>>
    /\ model_path = ""
    /\ raw_answer = ""
    /\ final_answer = <<>>
    /\ steps = <<>>

\* lines 277-279: Clear Chat pressed
Clear ==
    /\ pc = "idle"
    /\ button' = "clear"
    /\ history' = ClearedHistory(history)
    /\ run' = "cleared"
    /\ pc' = "idle"
    /\ NoLocals
    /\ UNCHANGED <<cache, attempted>>

\* line 284 with blank text: Send pressed, the handler is not entered
SendBlank(text) ==
    /\ pc = "idle"
    /\ Strip(text) = ""
    /\ button' = "send"
    /\ run' = "ignored"
    /\ pc' = "idle"
    /\ NoLocals
    /\ UNCHANGED <<history, cache, attempted>>

\* lines 284-285: Send pressed with text; the sidebar settings of this run
\* are those read at lines 59-82
Send(text, choice, web, translate) ==
    /\ pc = "idle"
    /\ Strip(text) # ""
    /\ Len(history) + 2 <= MaxTurns
    /\ button' = "send"
    /\ run' = "running"
    /\ history' = AppendTurn(history, Turn("user", <<text>>))
    /\ user_text' = text
    /\ model_choice' = choice
    /\ use_web' = web
    /\ enable_bn_translate' = translate
    /\ steps' = <<"user_turn">>
    /\ pc' = "inspect"
    /\ user_is_bn' = FALSE
    /\ bn_en_pipe' = "None"
    /\ en_bn_pipe' = "None"
    /\ hits' = <<>>
    /\ pages' = <<>>
    /\ searchCalls' = 0
    /\ fetchCalls' = 0
    /\ retrieval' = <<>>
    /\ services' = <<>>
    /\ question' = ""
    /\ prompt' = <<>>
    /\ model_path' = ""
    /\ raw_answer' = ""
    /\ final_answer' = <<>>
    /\ UNCHANGED <<cache, attempted>>

\* line 289
Inspect(det) ==
    /\ pc = "inspect"
    /\ user_is_bn' = looks_bangla(user_text, det)
    /\ steps' = Append(steps, "inspect")
    /\ pc' = "translators"
    /\ UNCHANGED <<history, cache, attempted, button, run, user_text,
                   model_choice, use_web, enable_bn_translate, bn_en_pipe,
                   en_bn_pipe, hits, pages, searchCalls, fetchCalls, retrieval,
                   services, question, prompt, model_path, raw_answer,
                   final_answer>>

\* lines 290-294
LoadTranslators(outcome) ==
    /\ pc = "translators"
    /\ IF enable_bn_translate /\ user_is_bn
       THEN LET r == CachedLoad(MarianId, outcome)
            IN  /\ r.ran \/ outcome = "ok"
                /\ cache' = r.cache
                /\ attempted' = r.attempted
                /\ bn_en_pipe' = IF r.ok THEN "pipe" ELSE "None"
                /\ en_bn_pipe' = IF r.ok THEN "pipe" ELSE "None"
                /\ steps' = Append(steps,
                                   IF ~r.ran THEN "reuse_translators"
                                   ELSE IF r.ok THEN "construct_translators"
                                   ELSE "translators_unavailable")
       ELSE /\ outcome = "ok"
            /\ UNCHANGED <<cache, attempted, bn_en_pipe, en_bn_pipe, steps>>
    /\ pc' = "retrieve"
    /\ UNCHANGED <<history, button, run, user_text, model_choice, use_web,
                   enable_bn_translate, user_is_bn, hits, pages, searchCalls,
                   fetchCalls, retrieval, services, question, prompt,
                   model_path, raw_answer, final_answer>>

\* the fetch results of a list of hits: one text per hit that has a URL
PageMaps(hs, responses) ==
    {pg \in [1..Len(hs) -> {fetch_page_text(r) : r \in responses}] :
        \A i \in 1..Len(hs) : hs[i].href = "" => pg[i] = ""}

\* lines 297-299
RetrieveWith(provided, responses) ==
    /\ pc = "retrieve"
    /\ IF use_web
       THEN \E avail \in BOOLEAN, p \in provided :
              \E yielded \in 0..Len(p) :
                \E pg \in PageMaps(ddg_search(avail, p, yielded), responses) :
                    /\ avail \/ yielded = 0
                    /\ hits' = ddg_search(avail, p, yielded)
                    /\ pages' = pg
                    /\ searchCalls' = searchCalls + 1
                    /\ fetchCalls' = fetchCalls + FetchCount(hits')
                    /\ retrieval' = build_retrieval_context(hits', pg)
                    /\ steps' = Append(steps, "retrieve")
       ELSE UNCHANGED <<hits, pages, searchCalls, fetchCalls, retrieval, steps>>
    /\ pc' = "compose"
    /\ UNCHANGED <<history, cache, attempted, button, run, user_text,
                   model_choice, use_web, enable_bn_translate, user_is_bn,
                   bn_en_pipe, en_bn_pipe, services, question, prompt,
                   model_path, raw_answer, final_answer>>

Retrieve == RetrieveWith(SessionProvided, SessionResponses)

\* an exception that leaves the script: the run ends where it is
Abort ==
    /\ pc' = "idle"
    /\ run' = "aborted"
    /\ button' = "none"
    /\ NoLocals

\* line 301
Compose(svc) ==
    /\ pc = "compose"
    /\ IF ForwardGate
       THEN LET t == translate_bn_en_en_bn(user_text, "bn2en", bn_en_pipe,
                                           en_bn_pipe, svc)
            IN  IF t.ok
                THEN /\ question' = t.text
                     /\ prompt' = build_prompt(t.text, retrieval)
                     /\ services' = Append(services, svc)
                     /\ steps' = steps \o <<"translate_question", "compose">>
                     /\ pc' = "generate"
                     /\ UNCHANGED <<button, run, user_text, model_choice,
                                    use_web, enable_bn_translate, user_is_bn,
                                    bn_en_pipe, en_bn_pipe, hits, pages,
                                    searchCalls, fetchCalls, retrieval,
                                    model_path, raw_answer, final_answer>>
                ELSE Abort
       ELSE /\ svc = "identity"
            /\ question' = user_text
            /\ prompt' = build_prompt(user_text, retrieval)
            /\ steps' = Append(steps, "compose")
            /\ pc' = "generate"
            /\ UNCHANGED <<button, run, user_text, model_choice, use_web,
                           enable_bn_translate, user_is_bn, bn_en_pipe,
                           en_bn_pipe, hits, pages, searchCalls, fetchCalls,
                           retrieval, services, model_path, raw_answer,
                           final_answer>>
    /\ UNCHANGED <<history, cache, attempted>>

\* lines 304-318 and the except clause of lines 326-327.  ctor is what the
\* constructor body does in this script run; "no_package" is the run in which
\* the import of lines 32-34 failed.  A handle is in the cache only after the
\* import succeeded, and a module imported once stays in sys.modules for the
\* life of the process, so a cache hit comes with ctor = "ok" and the guard
\* of lines 206-207 is passed whenever line 307 is reached.
Generate(path, ctor, outcome) ==
    /\ pc = "generate"
    /\ LET id == BackendId(model_choice, path)
           r == CachedLoad(id, ctor)
           g == generate(model_choice, ctor # "no_package", outcome)
       IN  /\ ctor \in CtorOutcomes(id)
           /\ model_path' = IF model_choice = "GPT4All (offline)"
                            THEN path ELSE model_path
           /\ model_choice # "GPT4All (offline)" => path = DefaultPath
           /\ cache' = r.cache
           /\ attempted' = r.attempted
           /\ IF ~r.ok
              THEN /\ ctor # "ok" /\ outcome.ok
                   /\ final_answer' = FailureMessage(r.err)
                   /\ steps' = Append(steps, "construct_failed")
                   /\ pc' = "append"
                   /\ UNCHANGED raw_answer
              ELSE /\ r.ran \/ ctor = "ok"
                   /\ IF g.ok
                      THEN /\ raw_answer' = g.text
                           /\ steps' = steps \o
                                <<IF r.ran THEN "construct" ELSE "reuse",
                                  "generate">>
                           /\ pc' = "back_translate"
                           /\ UNCHANGED final_answer
                      ELSE /\ final_answer' = FailureMessage(g.err)
                           /\ steps' = steps \o
                                <<IF r.ran THEN "construct" ELSE "reuse",
                                  "generate_failed">>
                           /\ pc' = "append"
                           /\ UNCHANGED raw_answer
    /\ UNCHANGED <<history, button, run, user_text, model_choice, use_web,
                   enable_bn_translate, user_is_bn, bn_en_pipe, en_bn_pipe,
                   hits, pages, searchCalls, fetchCalls, retrieval, services,
                   question, prompt>>

\* lines 320-327
BackTranslate(svc) ==
    /\ pc = "back_translate"
    /\ IF BackGate
       THEN LET t == translate_bn_en_en_bn(raw_answer, "en2bn", bn_en_pipe,
                                           en_bn_pipe, svc)
            IN  IF t.ok
                THEN /\ final_answer' = <<t.text>>
                     /\ steps' = Append(steps, "back_translate")
                     /\ services' = Append(services, svc)
                ELSE /\ final_answer' = FailureMessage(t.err)
                     /\ steps' = Append(steps, "back_translate_failed")
                     /\ services' = Append(services, svc)
       ELSE /\ svc = "identity"
            /\ final_answer' = <<raw_answer>>
            /\ UNCHANGED <<steps, services>>
    /\ pc' = "append"
    /\ UNCHANGED <<history, cache, attempted, button, run, user_text,
                   model_choice, use_web, enable_bn_translate, user_is_bn,
                   bn_en_pipe, en_bn_pipe, hits, pages, searchCalls,
                   fetchCalls, retrieval, question, prompt, model_path,
                   raw_answer>>

\* line 329
AppendAssistant ==
    /\ pc = "append"
    /\ history' = AppendTurn(history, Turn("assistant", final_answer))
    /\ steps' = Append(steps, "assistant_turn")
    /\ pc' = "rerun"
    /\ UNCHANGED <<cache, attempted, button, run, user_text, model_choice,
                   use_web, enable_bn_translate, user_is_bn, bn_en_pipe,
                   en_bn_pipe, hits, pages, searchCalls, fetchCalls, retrieval,
                   services, question, prompt, model_path, raw_answer,
                   final_answer>>

\* line 330: the script is run again with no button pressed
Rerun ==
    /\ pc = "rerun"
    /\ pc' = "idle"
    /\ run' = "completed"
    /\ button' = "none"
    /\ NoLocals
    /\ UNCHANGED <<history, cache, attempted>>

\* one session: any text, any setting, the default GPT4All model file
Next ==
    \/ Clear
    \/ \E text \in UserTexts : SendBlank(text)
    \/ \E text \in UserTexts, choice \in ModelChoices, web \in BOOLEAN,
          translate \in BOOLEAN : Send(text, choice, web, translate)
    \/ \E det \in Detections : Inspect(det)
    \/ \E outcome \in CtorOutcomes(MarianId) : LoadTranslators(outcome)
    \/ Retrieve
    \/ \E svc \in TranslationServices : Compose(svc)
    \/ \E ctor \in {"ok", "no_package", "lib_error"}, outcome \in GenOutcomes :
          Generate(DefaultPath, ctor, outcome)
    \/ \E svc \in TranslationServices : BackTranslate(svc)
    \/ AppendAssistant
    \/ Rerun

Spec == Init /\ [][Next]_vars

\* one session seen from the loaders: Bangla questions without web search,
\* any backend and any GPT4All model file
CacheNext ==
    \/ Clear
    \/ SendBlank("")
    \/ \E choice \in ModelChoices, translate \in BOOLEAN :
          Send("bn", choice, FALSE, translate)
    \/ Inspect("absent")
    \/ \E outcome \in CtorOutcomes(MarianId) : LoadTranslators(outcome)
    \/ Retrieve
    \/ Compose("identity")
    \/ \E path \in Paths, ctor \in {"ok", "no_package", "lib_error"},
          outcome \in GenOutcomes : Generate(path, ctor, outcome)
    \/ BackTranslate("identity")
    \/ AppendAssistant
    \/ Rerun

SpecCache == Init /\ [][CacheNext]_vars

\* build_retrieval_context on its own: a send that has reached line 299
\* with web search enabled, over every result list and every page outcome
RetrievalInit ==
    /\ user_text \in {" hi ", "bn"}
    /\ history = <<Turn("user", <<user_text>>)>>
    /\ cache = {}
    /\ attempted = {}
    /\ pc = "retrieve"
    /\ button = "send"
    /\ run = "running"
    /\ model_choice = "Ollama (Mistral/Llama)"
    /\ use_web = TRUE
    /\ enable_bn_translate = FALSE
    /\ user_is_bn = HasBengali(user_text)
    /\ bn_en_pipe = "None"
    /\ en_bn_pipe = "None"
    /\ hits = <<>>
    /\ pages = <<>>
    /\ searchCalls = 0
    /\ fetchCalls = 0
    /\ retrieval = <<>>
    /\ services = <<>>
    /\ question = ""
    /\ prompt = <<>>
    /\ model_path = ""
    /\ raw_answer = ""
    /\ final_answer = <<>>
    /\ steps = <<"user_turn", "inspect">>

RetrieveAny == RetrieveWith(SeqsUpTo(Results, MaxHits), Responses)

SpecRetrieval == RetrievalInit /\ [][RetrieveAny]_vars

(***************************************************************************)
(* Properties                                                              *)
(***************************************************************************)
InSeq(x, sq) == \E i \in 1..Len(sq) : sq[i] = x

Alternating(h) ==
    /\ Len(h) % 2 = 0
    /\ \A i \in 1..Len(h) :
          h[i].role = IF i % 2 = 1 THEN "user" ELSE "assistant"

SorryPrefix == "Sorry, the local model backend failed: "
SorryHint ==
    "\n\nTry another backend in the sidebar, or install the missing package/model."

\* the send has carried out its retrieval step
Retrieved == pc \in {"compose", "generate", "back_translate", "append", "rerun"}
\* the send has built its prompt
Composed == pc \in {"generate", "back_translate", "append", "rerun"}
\* the send has its final answer
Answered == pc \in {"append", "rerun"}
\* the backend raised in this send, at construction or in the generate call
BackendFailed ==
    InSeq("construct_failed", steps) \/ InSeq("generate_failed", steps)

\* C1: between sends the transcript alternates user and assistant turns
\* and no send has ended in an uncaught exception: every handled send adds
\* the user's turn and exactly one assistant turn, whichever step failed.
C1_EverySendAddsTwoTurns ==
    pc = "idle" => (run # "aborted" /\ Alternating(history))

\* the exception texts a backend can raise in a send, by selected backend
\* (the text of line 207 is not among them: see Generate)
BackendErrorTexts(choice) ==
    {<<"generation error">>, <<"model could not be loaded">>} \cup
    (IF choice = "Ollama (Mistral/Llama)"
     THEN {<<"ollama python package not installed. ",
            Backtick,
            "pip install ollama",
            Backtick,
            " and install the Ollama app.">>}
     ELSE IF choice = "GPT4All (offline)"
     THEN {<<"gpt4all package not installed. ",
            Backtick,
            "pip install gpt4all",
            Backtick,
            " and download a model.">>}
     ELSE {<<"transformers not installed. ",
            Backtick,
            "pip install transformers torch",
            Backtick>>})

\* C2: a backend failure (construction or generate call) never leaves the
\* handler: the step ends at the append with the failure message holding
\* the exception text and no raw answer, and that message is appended as
\* the one assistant turn after the user's turn.
C2_BackendFailureIsOneMessage ==
    [][/\ pc = "generate" =>
            /\ pc' \in {"append", "back_translate"}
            /\ run' = "running"
            /\ history' = history
            /\ pc' = "append" =>
                  /\ final_answer' \in
                        {<<SorryPrefix>> \o e \o <<SorryHint>> :
                            e \in BackendErrorTexts(model_choice)}
                  /\ raw_answer' = ""
       /\ (pc = "append" /\ BackendFailed) =>
            /\ history[Len(history)] = Turn("user", <<user_text>>)
            /\ history' = Append(history, Turn("assistant", final_answer))
            /\ final_answer[1] = SorryPrefix
            /\ pc' = "rerun"
       /\ (pc = "rerun" /\ BackendFailed) => history' = history]_vars

C2_Witness ==
    /\ pc = "rerun"
    /\ InSeq("construct_failed", steps)
    /\ history[Len(history)] =
         Turn("assistant",
              <<SorryPrefix>> \o
              <<"gpt4all package not installed. ",
                Backtick,
                "pip install gpt4all",
                Backtick,
                " and download a model.">>
              \o <<SorryHint>>)

\* C3: no search, fetch or translation failure ends the send in an uncaught
\* exception, and whenever the backend produced an answer the assistant
\* turn is that answer (translated or unchanged), never a failure message.
C3_SoftFailuresNeverSurface ==
    /\ run # "aborted"
    /\ (Answered /\ InSeq("generate", steps)) => final_answer[1] # SorryPrefix

\* no page fetch yielded text
NoPageText == \A i \in 1..Len(hits) : hits[i].href = "" \/ pages[i] = ""

\* C4: with at least one result and no page text, the context is one
\* snippet-only chunk (title, URL, snippet) per result, in provider order,
\* joined by a blank line.
C4_SnippetFallback ==
    (pc = "compose" /\ hits # <<>> /\ NoPageText) =>
        /\ Len(retrieval) = 7 * Len(hits) - 1
        /\ \A i \in 1..Len(hits) :
              /\ SubSeq(retrieval, 7 * i - 6, 7 * i - 1) =
                    <<"Title: ", hits[i].title, "\nURL: ", hits[i].href,
                      "\nSnippet: ", hits[i].snippet>>
              /\ i < Len(hits) => retrieval[7 * i] = "\n\n"

C4_Witness ==
    /\ pc = "compose"
    /\ Len(hits) = 2
    /\ NoPageText
    /\ hits[1].href # ""
    /\ hits[2].href = ""
    /\ Len(retrieval) = 13

PromptNotice == "No external web info was fetched for this question.\n"
PromptLabel == "Relevant web information (may be partial; verify consistency):\n"
PromptCite ==
    "When you use any line from above, add [Source: URL] after the sentence.\n"

\* C5: the context is empty exactly when web search is off or the search
\* returned nothing; with web search off no search or fetch is issued; the
\* prompt holds the notice exactly when the context is empty and the
\* labelled context with the citation instruction exactly when it is not.
C5_EmptyContextAndNotice ==
    /\ Retrieved =>
          /\ (retrieval = <<>>) <=> (~use_web \/ hits = <<>>)
          /\ ~use_web =>
                (searchCalls = 0 /\ fetchCalls = 0 /\ ~InSeq("retrieve", steps))
          /\ use_web => searchCalls = 1
    /\ Composed =>
          /\ InSeq(PromptNotice, prompt) <=> (retrieval = <<>>)
          /\ (InSeq(PromptLabel, prompt) /\ InSeq(PromptCite, prompt))
                <=> (retrieval # <<>>)
          /\ InSeq(PromptLabel, prompt) \/ InSeq(PromptCite, prompt)
                => (retrieval # <<>>)
          /\ retrieval # <<>> =>
                SubSeq(prompt, 3, 5 + Len(retrieval)) =
                    <<PromptLabel>> \o retrieval \o <<"\n", PromptCite>>

C5_Witness ==
    /\ pc = "rerun"
    /\ use_web
    /\ hits = <<R1>>
    /\ pages = <<"">>
    /\ InSeq(PromptLabel, prompt)
    /\ ~InSeq(PromptNotice, prompt)

\* title, URL and snippet of a result stand in the context as one chunk
\* (a page chunk shows the URL as title when the result has no title)
Appears(h, ctx) ==
    \E j \in 1..Len(ctx) :
        /\ j + 5 <= Len(ctx)
        /\ ctx[j] = "Title: "
        /\ ctx[j + 1] \in {h.title} \cup (IF h.title = "" THEN {h.href} ELSE {})
        /\ ctx[j + 2] = "\nURL: "
        /\ ctx[j + 3] = h.href
        /\ ctx[j + 4] = "\nSnippet: "
        /\ ctx[j + 5] = h.snippet

\* C6 as stated: every result of the search appears in the context, also
\* when some pages are fetched and others are not.
C6_EveryResultAppears ==
    pc = "compose" => \A i \in 1..Len(hits) : Appears(hits[i], retrieval)

\* the results whose page yielded text
Fetched == {i \in 1..Len(hits) : hits[i].href # "" /\ pages[i] # ""}

\* C6 as amended: a failed fetch does not stop the loop; when no page
\* yields text every result appears as a snippet chunk; when some page
\* yields text the context holds exactly the results whose page yielded
\* text, in provider order, and the other results are left out.
C6_FailedFetchSkipsOnlyThatResult ==
    pc = "compose" =>
        IF Fetched = {}
        THEN \A i \in 1..Len(hits) : Appears(hits[i], retrieval)
        ELSE /\ Len(retrieval) = 9 * Cardinality(Fetched) - 1
             /\ \A i \in Fetched :
                  LET k == Cardinality({j \in Fetched : j <= i})
                  IN  /\ retrieval[9 * k - 8] = "Title: "
                      /\ retrieval[9 * k - 7] =
                            (IF hits[i].title # "" THEN hits[i].title
                             ELSE hits[i].href)
                      /\ retrieval[9 * k - 5] = hits[i].href
                      /\ retrieval[9 * k - 3] = hits[i].snippet
                      /\ retrieval[9 * k - 2] = "\nPage excerpt: "
                      /\ TextLen(retrieval[9 * k - 1]) <= ExcerptCap

C6_Witness ==
    /\ pc = "compose"
    /\ Len(hits) = 2
    /\ hits[1] = R1
    /\ pages[1] = ""
    /\ hits[2] = R2
    /\ pages[2] # ""
    /\ ~Appears(R1, retrieval)
    /\ Appears(R2, retrieval)

\* what a working translation pipeline returns
Translated(svc, direction, text) ==
    IF svc = "identity" THEN text ELSE Marian(direction, text)

\* translation is enabled, the input is flagged and the translators loaded
Applicable ==
    enable_bn_translate /\ user_is_bn /\ bn_en_pipe # "None" /\ en_bn_pipe # "None"

BackAttempted ==
    InSeq("back_translate", steps) \/ InSeq("back_translate_failed", steps)

\* what a working back-translation of the raw answer can be
BackTranslations == {raw_answer, Marian("en2bn", raw_answer)}

\* C7: in every send the prompt holds the translated question exactly when
\* translation applies (enabled, input flagged, translators loaded) and the
\* user's text otherwise; after a successful generation the appended answer
\* is the back-translation of the raw output when translation applies and
\* the raw output otherwise; forward and back translation go together, and
\* with an identity translation service the answer is the raw output.
C7_TranslationGate ==
    /\ Composed =>
          /\ prompt[Len(prompt) - 1] = question
          /\ IF Applicable
             THEN /\ InSeq("translate_question", steps)
                  /\ question = Translated(services[1], "bn2en", user_text)
             ELSE /\ ~InSeq("translate_question", steps)
                  /\ question = user_text
    /\ (Answered /\ InSeq("generate", steps)) =>
          /\ BackAttempted <=> InSeq("translate_question", steps)
          /\ IF Applicable
             THEN \E t \in BackTranslations : final_answer = <<t>>
             ELSE final_answer = <<raw_answer>>
          /\ (\A i \in 1..Len(services) : services[i] = "identity")
                => final_answer = <<raw_answer>>
    /\ pc = "rerun" => history[Len(history)] = Turn("assistant", final_answer)

\* the step loads this identity through its cached loader
LoadStep(id) ==
    \/ pc = "translators" /\ enable_bn_translate /\ user_is_bn /\ id = MarianId
    \/ pc = "generate" /\ id = BackendId(model_choice, model_path')

\* the step ran the constructor body of this identity
ConstructorRan(id) ==
    /\ LoadStep(id)
    /\ Len(steps') > Len(steps)
    /\ steps'[Len(steps) + 1] \in
          {"construct", "construct_failed", "construct_translators",
           "translators_unavailable"}

\* C8 as stated: the constructor of an identity runs at most once in the
\* process, also after a failed first attempt.
C8_ConstructedAtMostOnce ==
    [][\A id \in Identities : ConstructorRan(id) => id \notin attempted]_vars

\* C8 as amended: a handle is stored at most once per identity and then
\* reused by every later load without running the constructor; a load of
\* an identity that holds no handle runs the constructor, and a failed
\* construction stores nothing, so the next load runs it again.
C8_HandleBuiltOnceThenReused ==
    [][\A id \in Identities :
          /\ id \in cache => (id \in cache' /\ ~ConstructorRan(id))
          /\ (LoadStep(id) /\ id \notin cache) =>
                /\ ConstructorRan(id)
                /\ id \in attempted'
                /\ id \in cache' <=>
                      steps'[Len(steps) + 1] \in {"construct", "construct_translators"}
          /\ ~LoadStep(id) => (id \in cache' <=> id \in cache)]_vars

C8_Witness ==
    /\ pc = "rerun"
    /\ model_path = "other.bin"
    /\ InSeq("reuse", steps)
    /\ Gpt4allId("other.bin") \in cache
    /\ Gpt4allId(DefaultPath) \in attempted \ cache

\* C9: clear empties the transcript whatever it held; every other step
\* either leaves the transcript alone or appends one turn to it (the
\* user's turn when a send starts, the answer at the append), so existing
\* turns are never changed, reordered, dropped or deduplicated.
C9_AppendOnlyUntilClear ==
    [][IF button' = "clear"
       THEN history' = <<>>
       ELSE /\ (pc = "idle" /\ pc' = "inspect") =>
                  history' = Append(history, Turn("user", <<user_text'>>))
            /\ pc = "append" =>
                  history' = Append(history, Turn("assistant", final_answer))
            /\ (pc # "append" /\ ~(pc = "idle" /\ pc' = "inspect")) =>
                  history' = history]_vars

C9_Witness ==
    /\ button = "clear"
    /\ history = <<>>
    /\ cache # {}
    /\ attempted # cache

\* the place of a step in the order of the handler
StepRank(st) ==
    CASE st = "user_turn" -> 1
      [] st = "inspect" -> 2
      [] st \in {"reuse_translators", "construct_translators",
                 "translators_unavailable"} -> 3
      [] st = "retrieve" -> 4
      [] st = "translate_question" -> 5
      [] st = "compose" -> 6
      [] st \in {"construct", "reuse", "construct_failed"} -> 7
      [] st \in {"generate", "generate_failed"} -> 8
      [] st \in {"back_translate", "back_translate_failed"} -> 9
      [] st = "assistant_turn" -> 10

\* C10: the steps of a send happen in the order user turn, inspection,
\* retrieval, translation of the question, prompt, generation,
\* back-translation, assistant turn; and a send starts only when the
\* assistant turn of the send before it is in the transcript.
C10_StepsInOrderNoOverlap ==
    /\ \A i \in 1..Len(steps) :
          \A j \in 1..Len(steps) :
             i < j => StepRank(steps[i]) < StepRank(steps[j])
    /\ InSeq("assistant_turn", steps) <=> pc = "rerun"
    /\ pc = "inspect" =>
          (Len(history) = 1 \/ history[Len(history) - 1].role = "assistant")

====
